---- MODULE Spec2Model ----
(***************************************************************************)
(* Model of dataset/generate_data.py: the generator of the users, sessions *)
(* and raw_events tables.                                                  *)
(*                                                                         *)
(* Random draws are nondeterministic choices over a few sample values of   *)
(* each draw's range (its end points); the stream of the seeded generators *)
(* is recorded in `tape`, so that a second process seeded with the same    *)
(* RANDOM_SEED reads the same stream.  Wall-clock reads (datetime.now())   *)
(* are inputs of the environment and are not part of the seeded stream.    *)
(***************************************************************************)
EXTENDS Integers, Sequences, FiniteSets, TLC

VARIABLES
    NUM_USERS, NUM_SESSIONS, NUM_EVENTS,   \* configuration, fixed per process
    clock,                  \* last value datetime.now() returned
    run,                    \* 1: first process, 2: second process, same seed
    tape, cursor,           \* output stream of the seeded generators, read position
    pc,                     \* position of the process
    signup_dates, users,    \* generate_users
    base_date, sessions_data, sessions,            \* generate_sessions
    tokens,                 \* history: token drawn for each session
    user_country_map, events_data, event_id, idx,  \* generate_events
    num_events_in_session, session_duration, k,
    jitters,                \* history: Poisson draw of each session visited
    events_idx,             \* history: session position of each appended event
    events,
    files,                  \* the csv files written so far
    summary_printed, error_printed, raised,
    prev                    \* tables of the first process, kept for comparison

vars == <<NUM_USERS, NUM_SESSIONS, NUM_EVENTS, clock, run, tape, cursor, pc,
          signup_dates, users, base_date, sessions_data, sessions, tokens,
          user_country_map, events_data, event_id, idx, num_events_in_session,
          session_duration, k, jitters, events_idx, events, files,
          summary_printed, error_printed, raised, prev>>

configVars == <<NUM_USERS, NUM_SESSIONS, NUM_EVENTS>>
usersVars == <<signup_dates, users>>
sessionsVars == <<base_date, sessions_data, sessions, tokens>>
eventsVars == <<user_country_map, events_data, event_id, idx,
                num_events_in_session, session_duration, k, jitters,
                events_idx, events>>
outVars == <<files, summary_printed, error_printed, raised>>

(***************************************************************************)
(* Bounds of the model.                                                    *)
(***************************************************************************)
MaxUsers == 2        \* NUM_USERS ranges over 0..MaxUsers
MaxSessions == 3     \* NUM_SESSIONS ranges over 0..MaxSessions
MaxCap == 3          \* NUM_EVENTS ranges over 0..MaxCap
MainSize == 1        \* the three of them range over 0..MainSize in a whole run
MaxJitter == 1       \* np.random.poisson returns 0..MaxJitter
MaxExp == 1          \* np.random.exponential returns 0 .. just under MaxExp + 1
SubMicro == 4        \* floats are resolved to 1/SubMicro of a microsecond

(***************************************************************************)
(* Program constants.                                                      *)
(***************************************************************************)
NUM_DAYS == 90
SIGNUP_DAYS == 180
MIN_DURATION == 1
MAX_DURATION == 120
TOKEN_LEN == 16
SECONDS_PER_DAY == 86400
MICROS_PER_SECOND == 1000000

Min(a, b) == IF a < b THEN a ELSE b
Max(a, b) == IF a > b THEN a ELSE b

\* The weighted distributions, by their keys in order: every key has a
\* positive weight, so every key can be drawn.
EVENT_TYPE_DISTRIBUTION ==
    <<"page_view", "click", "add_to_cart", "checkout", "purchase", "sign_up">>
DEVICE_DISTRIBUTION == <<"desktop", "mobile", "tablet">>
COUNTRY_DISTRIBUTION ==
    <<"US", "JP", "GB", "DE", "FR", "CA", "AU", "SG", "IN", "BR">>
PLAN_DISTRIBUTION == <<"free", "premium">>
ACTIVE_DISTRIBUTION == <<TRUE, FALSE>>
PAGE_URLS ==
    <<"/home", "/products", "/products/1", "/products/2", "/products/3",
      "/cart", "/checkout", "/about", "/contact", "/blog", "/blog/post-1",
      "/blog/post-2">>
ALPHABET ==
    <<"a", "b", "c", "d", "e", "f", "g", "h", "i", "j", "k", "l", "m", "n",
      "o", "p", "q", "r", "s", "t", "u", "v", "w", "x", "y", "z",
      "0", "1", "2", "3", "4", "5", "6", "7", "8", "9">>
SESSION_PREFIX == <<"s", "e", "s", "s", "i", "o", "n", "_">>

(***************************************************************************)
(* datetime and timedelta: days, seconds, microseconds, normalised as      *)
(* Python's datetime module keeps them.                                    *)
(***************************************************************************)
Normalize(d, s, us) ==
    LET s2 == s + (us \div MICROS_PER_SECOND)
    IN  [days |-> d + (s2 \div SECONDS_PER_DAY),
         seconds |-> s2 % SECONDS_PER_DAY,
         microseconds |-> us % MICROS_PER_SECOND]

timedelta(d, h, m, s) == Normalize(d, h * 3600 + m * 60 + s, 0)

TimeAdd(a, b) ==
    Normalize(a.days + b.days, a.seconds + b.seconds,
              a.microseconds + b.microseconds)

TimeSub(a, b) ==
    Normalize(a.days - b.days, a.seconds - b.seconds,
              a.microseconds - b.microseconds)

TimeLess(a, b) ==
    \/ a.days < b.days
    \/ a.days = b.days /\ a.seconds < b.seconds
    \/ a.days = b.days /\ a.seconds = b.seconds
         /\ a.microseconds < b.microseconds

TimeLeq(a, b) == a = b \/ TimeLess(a, b)

\* A float number of seconds: whole seconds, microseconds and the part
\* below one microsecond in units of 1/SubMicro.
total_seconds(td) ==
    [sec |-> td.days * SECONDS_PER_DAY + td.seconds, us |-> td.microseconds,
     sub |-> 0]

FloatZero == [sec |-> 0, us |-> 0, sub |-> 0]

\* The largest float below x (x > 0).
FloatPred(x) ==
    IF x.sub > 0 THEN [x EXCEPT !.sub = @ - 1]
    ELSE IF x.us > 0 THEN [x EXCEPT !.us = @ - 1, !.sub = SubMicro - 1]
    ELSE [sec |-> x.sec - 1, us |-> MICROS_PER_SECOND - 1, sub |-> SubMicro - 1]

\* timedelta(seconds=x) for a float x: rounded to the nearest microsecond,
\* ties to the even microsecond.
timedelta_seconds(x) ==
    LET up == \/ 2 * x.sub > SubMicro
              \/ 2 * x.sub = SubMicro /\ x.us % 2 = 1
    IN  Normalize(0, x.sec, x.us + (IF up THEN 1 ELSE 0))

(***************************************************************************)
(* The random sources.  Each operator is the sequence of sample results of *)
(* one call, lowest first: the end points of the call's range.             *)
(***************************************************************************)
randint(a, b) == <<a, b>>

choice(seq) == <<seq[1], seq[Len(seq)]>>

np_random_choice(keys) == <<keys[1], keys[Len(keys)]>>

\* random.choices(population, k=n): n draws with replacement.
random_choices(population, n) ==
    <<[i \in 1..n |-> population[1]],
      [i \in 1..n |-> population[Len(population)]]>>

\* random.uniform(0, b) is 0 + b * random.random() with random() in [0, 1):
\* for the durations of this program the product is below b.
uniform(b) ==
    IF b = FloatZero THEN <<FloatZero>>
    ELSE <<FloatZero,
           [sec |-> b.sec \div 2, us |-> 1, sub |-> SubMicro \div 2],
           FloatPred(b)>>

\* np.random.exponential(scale=3): a float >= 0, here in halves.
np_random_exponential == <<0, 2 * MaxExp + 1>>

np_random_poisson == [i \in 1..(MaxJitter + 1) |-> i - 1]

Lo(samples) == samples[1]
Hi(samples) == samples[Len(samples)]
Pick(samples, high) == IF high THEN Hi(samples) ELSE Lo(samples)
Samples(samples) == {samples[i] : i \in 1..Len(samples)}

\* The seeded stream: a result already on the tape is the result again.
Draws(S) == IF cursor <= Len(tape) THEN {tape[cursor]} ELSE S

Advance(d) ==
    /\ tape' = (IF cursor <= Len(tape) THEN tape ELSE Append(tape, d))
    /\ cursor' = cursor + 1

\* datetime.now(): the clock never runs backwards.
Nows ==
    {[days |-> 20760, seconds |-> 43200, microseconds |-> 250000],
     [days |-> 20761, seconds |-> 43200, microseconds |-> 750001]}

Now == {t \in Nows : TimeLeq(clock, t)}


NoTime == [days |-> 0, seconds |-> 0, microseconds |-> 0]

(***************************************************************************)
(* The except clause of __main__: where a failing step leaves the process. *)
(***************************************************************************)
\* Variant: the failure is swallowed and the step goes on.
OnFailureContinue(p) == p

OnFailure(p) == "error"

Raise ==
    /\ pc' = OnFailure(pc)
    /\ error_printed' = TRUE
    /\ raised' = TRUE
    /\ UNCHANGED <<files, summary_printed>>

(***************************************************************************)
(* generate_users                                                          *)
(***************************************************************************)
\* (datetime.now() - timedelta(days=r)).date()
signup_date(now, r) == TimeSub(now, timedelta(r, 0, 0, 0)).days

\* The three column draws of one table: one sample choice per row.
UserColumnDraws(n) ==
    {[COUNTRY |-> [i \in 1..n |-> Pick(np_random_choice(COUNTRY_DISTRIBUTION), b[i])],
      PLAN_TYPE |-> [i \in 1..n |-> Pick(np_random_choice(PLAN_DISTRIBUTION), b[i])],
      IS_ACTIVE |-> [i \in 1..n |-> Pick(np_random_choice(ACTIVE_DISTRIBUTION), b[i])]]
        : b \in [1..n -> BOOLEAN]}

\* pd.DataFrame({...}) of generate_users
users_frame(n, dates, cols) ==
    [i \in 1..n |->
        [USER_ID |-> i,
         SIGNUP_DATE |-> dates[i],
         COUNTRY |-> cols.COUNTRY[i],
         PLAN_TYPE |-> cols.PLAN_TYPE[i],
         IS_ACTIVE |-> cols.IS_ACTIVE[i]]]

UsersSignupIter ==
    /\ pc = "gen_users"
    /\ Len(signup_dates) < NUM_USERS
    /\ \E t \in Now :
         \E r \in Draws(Samples(randint(0, SIGNUP_DAYS))) :
            /\ clock' = t
            /\ signup_dates' = Append(signup_dates, signup_date(t, r))
            /\ Advance(r)
    /\ UNCHANGED <<configVars, run, pc, users, sessionsVars, eventsVars,
                   outVars, prev>>

UsersBuildFrame ==
    /\ pc = "gen_users"
    /\ Len(signup_dates) = NUM_USERS
    /\ \E cols \in Draws(UserColumnDraws(NUM_USERS)) :
         /\ users' = users_frame(NUM_USERS, signup_dates, cols)
         /\ Advance(cols)
    /\ pc' = "save_users"
    /\ UNCHANGED <<configVars, clock, run, signup_dates, sessionsVars,
                   eventsVars, outVars, prev>>

(***************************************************************************)
(* save_to_csv: timestamps are written as YYYY-MM-DD HH:MM:SS, which drops *)
(* the microseconds.                                                       *)
(***************************************************************************)
strftime(t) == [days |-> t.days, seconds |-> t.seconds]

sessions_csv(df) ==
    [i \in 1..Len(df) |->
        [df[i] EXCEPT !.SESSION_START = strftime(@), !.SESSION_END = strftime(@)]]

events_csv(df) ==
    [i \in 1..Len(df) |-> [df[i] EXCEPT !.EVENT_TIMESTAMP = strftime(@)]]

SaveUsers ==
    /\ pc = "save_users"
    /\ files' = [files EXCEPT !.users = users]
    /\ pc' = "gen_sessions"
    /\ UNCHANGED <<configVars, clock, run, tape, cursor, usersVars,
                   sessionsVars, eventsVars, summary_printed, error_printed,
                   raised, prev>>

SaveSessions ==
    /\ pc = "save_sessions"
    /\ files' = [files EXCEPT !.sessions = sessions_csv(sessions)]
    /\ pc' = "gen_events"
    /\ UNCHANGED <<configVars, clock, run, tape, cursor, usersVars,
                   sessionsVars, eventsVars, summary_printed, error_printed,
                   raised, prev>>

SaveEvents ==
    /\ pc = "save_events"
    /\ files' = [files EXCEPT !.raw_events = events_csv(events)]
    /\ pc' = "stats"
    /\ UNCHANGED <<configVars, clock, run, tape, cursor, usersVars,
                   sessionsVars, eventsVars, summary_printed, error_printed,
                   raised, prev>>

PrintStats ==
    /\ pc = "stats"
    /\ summary_printed' = TRUE
    /\ pc' = "done"
    /\ UNCHANGED <<configVars, clock, run, tape, cursor, usersVars,
                   sessionsVars, eventsVars, files, error_printed, raised, prev>>

(***************************************************************************)
(* generate_session_id and generate_sessions                               *)
(***************************************************************************)
\* Variant: one character of the token is lost.
generate_session_id_short(token) ==
    SESSION_PREFIX \o SubSeq(token, 1, Len(token) - 1)

generate_session_id(token) == SESSION_PREFIX \o token

\* Variant: the positions of the rows instead of their ids.
user_ids_positions(df) == [i \in 1..Len(df) |-> i - 1]

\* users['USER_ID'].values
user_ids(df) == [i \in 1..Len(df) |-> df[i].USER_ID]

\* Variant: the duration taken as seconds.
session_end_seconds(start, m) == TimeAdd(start, timedelta(0, 0, 0, m))

\* session_start + timedelta(minutes=m)
session_end(start, m) == TimeAdd(start, timedelta(0, 0, m, 0))

\* max(1, x.astype(int) + 1) for the float x, given in halves
page_views(x) == Max(1, (x \div 2) + 1)

\* The random results of one iteration of the loop: eight sample
\* combinations of the end points of every draw.
SessionDraws(df) ==
    {[user |-> Pick(choice(user_ids(df)), b),
      days |-> Pick(randint(0, NUM_DAYS - 1), a),
      hours |-> Pick(randint(0, 23), a),
      minutes |-> Pick(randint(0, 59), a),
      seconds |-> Pick(randint(0, 59), a),
      duration |-> Pick(randint(MIN_DURATION, MAX_DURATION), c),
      exponential |-> Pick(np_random_exponential, a # c),
      token |-> Pick(random_choices(ALPHABET, TOKEN_LEN), c),
      device |-> Pick(np_random_choice(DEVICE_DISTRIBUTION), a # b)]
        : a \in BOOLEAN, b \in BOOLEAN, c \in BOOLEAN}

session_row(base, d) ==
    LET session_start ==
            TimeAdd(base, timedelta(d.days, d.hours, d.minutes, d.seconds))
    IN  [SESSION_ID |-> generate_session_id(d.token),
         USER_ID |-> d.user,
         SESSION_START |-> session_start,
         SESSION_END |-> session_end(session_start, d.duration),
         PAGE_VIEWS |-> page_views(d.exponential),
         DEVICE_TYPE |-> d.device]

SessionsBegin ==
    /\ pc = "gen_sessions"
    /\ \E t \in Now :
         /\ clock' = t
         /\ base_date' = TimeSub(t, timedelta(NUM_DAYS, 0, 0, 0))
    /\ sessions_data' = <<>>
    /\ tokens' = <<>>
    /\ pc' = "sessions_loop"
    /\ UNCHANGED <<configVars, run, tape, cursor, usersVars, sessions,
                   eventsVars, outVars, prev>>

SessionsIter ==
    /\ pc = "sessions_loop"
    /\ Len(sessions_data) < NUM_SESSIONS
    /\ IF Len(users) = 0
       THEN \* random.choice of an empty array raises IndexError
            /\ Raise
            /\ UNCHANGED <<tape, cursor, sessions_data, tokens>>
       ELSE /\ \E d \in Draws(SessionDraws(users)) :
                 /\ sessions_data' = Append(sessions_data, session_row(base_date, d))
                 /\ tokens' = Append(tokens, d.token)
                 /\ Advance(d)
            /\ UNCHANGED <<pc, outVars>>
    /\ UNCHANGED <<configVars, clock, run, usersVars, base_date, sessions,
                   eventsVars, prev>>

SessionsReturn ==
    /\ pc = "sessions_loop"
    /\ Len(sessions_data) = NUM_SESSIONS
    /\ sessions' = sessions_data
    /\ pc' = "save_sessions"
    /\ UNCHANGED <<configVars, clock, run, tape, cursor, usersVars, base_date,
                   sessions_data, tokens, eventsVars, outVars, prev>>


(***************************************************************************)
(* generate_events                                                         *)
(***************************************************************************)
\* dict(zip(users['USER_ID'], users['COUNTRY'])): the last row of an id wins
country_map(df) ==
    [u \in {df[i].USER_ID : i \in 1..Len(df)} |->
        df[CHOOSE i \in 1..Len(df) :
                /\ df[i].USER_ID = u
                /\ \A j \in 1..Len(df) : df[j].USER_ID = u => j <= i].COUNTRY]

\* (session['SESSION_END'] - session['SESSION_START']).total_seconds()
duration_seconds(session) ==
    total_seconds(TimeSub(session.SESSION_END, session.SESSION_START))

\* Variant: the offset added to the end of the session.
event_timestamp_from_end(session, time_offset) ==
    TimeAdd(session.SESSION_END, timedelta_seconds(time_offset))

\* session['SESSION_START'] + timedelta(seconds=time_offset)
event_timestamp(session, time_offset) ==
    TimeAdd(session.SESSION_START, timedelta_seconds(time_offset))

\* Variants: the comparison off by one, either way.
cap_reached_early(id, cap) == id >= cap
cap_reached_late(id, cap) == id > cap + 1

\* if event_id > NUM_EVENTS: break
cap_reached(id, cap) == id > cap

\* Variant: no slice.
head_unsliced(data, cap) == data

\* events_data[:NUM_EVENTS], NUM_EVENTS >= 0
head(data, cap) == SubSeq(data, 1, Min(cap, Len(data)))

\* The random results of one iteration of the inner loop: one sample
\* combination for each sample of the offset.
EventDraws(duration) ==
    {[time_offset |-> uniform(duration)[i],
      event_type |-> Pick(np_random_choice(EVENT_TYPE_DISTRIBUTION), i % 2 = 0),
      page |-> Pick(choice(PAGE_URLS), i > 1)]
        : i \in 1..Len(uniform(duration))}

\* Variant: the country of the row at the position of the event id instead
\* of the country of the session's user.
event_row_by_position(id, session, countries, d) ==
    [EVENT_ID |-> id,
     USER_ID |-> session.USER_ID,
     SESSION_ID |-> session.SESSION_ID,
     EVENT_TYPE |-> d.event_type,
     PAGE_URL |-> d.page,
     EVENT_TIMESTAMP |-> event_timestamp(session, d.time_offset),
     DEVICE_TYPE |-> session.DEVICE_TYPE,
     COUNTRY |-> countries[IF id \in DOMAIN countries THEN id
                           ELSE session.USER_ID]]

event_row(id, session, countries, d) ==
    [EVENT_ID |-> id,
     USER_ID |-> session.USER_ID,
     SESSION_ID |-> session.SESSION_ID,
     EVENT_TYPE |-> d.event_type,
     PAGE_URL |-> d.page,
     EVENT_TIMESTAMP |-> event_timestamp(session, d.time_offset),
     DEVICE_TYPE |-> session.DEVICE_TYPE,
     COUNTRY |-> countries[session.USER_ID]]

EventsBegin ==
    /\ pc = "gen_events"
    /\ user_country_map' = country_map(users)
    /\ events_data' = <<>>
    /\ event_id' = 1
    /\ idx' = 0
    /\ jitters' = <<>>
    /\ events_idx' = <<>>
    /\ pc' = "events_outer"
    /\ UNCHANGED <<configVars, clock, run, tape, cursor, usersVars,
                   sessionsVars, num_events_in_session, session_duration, k,
                   events, outVars, prev>>

\* The head of the outer loop: the next session, its number of events and
\* its duration.  A session of no events runs the checks after the inner
\* loop at once.
EventsNextSession ==
    /\ pc = "events_outer"
    /\ idx < Len(sessions)
    /\ \E j \in Draws(Samples(np_random_poisson)) :
         LET session == sessions[idx + 1]
             n == session.PAGE_VIEWS + j
         IN  /\ idx' = idx + 1
             /\ num_events_in_session' = n
             /\ session_duration' = duration_seconds(session)
             /\ k' = 0
             /\ jitters' = Append(jitters, j)
             /\ pc' = IF n > 0 THEN "events_inner"
                      ELSE IF cap_reached(event_id, NUM_EVENTS) THEN "events_return"
                      ELSE "events_outer"
             /\ Advance(j)
    /\ UNCHANGED <<configVars, clock, run, usersVars, sessionsVars,
                   user_country_map, events_data, event_id, events_idx, events,
                   outVars, prev>>

\* One iteration of the inner loop, with the check of the cap after it and,
\* when the inner loop ends, the same check of the outer loop.
EventsAppend ==
    /\ pc = "events_inner"
    /\ k < num_events_in_session
    /\ LET session == sessions[idx]
       IN  IF session.USER_ID \notin DOMAIN user_country_map
           THEN \* KeyError
                /\ Raise
                /\ UNCHANGED <<tape, cursor, events_data, event_id, k, events_idx>>
           ELSE /\ \E d \in Draws(EventDraws(session_duration)) :
                     /\ events_data' = Append(events_data,
                            event_row(event_id, session, user_country_map, d))
                     /\ Advance(d)
                /\ events_idx' = Append(events_idx, idx)
                /\ event_id' = event_id + 1
                /\ k' = k + 1
                /\ pc' = IF cap_reached(event_id + 1, NUM_EVENTS) THEN "events_return"
                         ELSE IF k + 1 = num_events_in_session THEN "events_outer"
                         ELSE "events_inner"
                /\ UNCHANGED outVars
    /\ UNCHANGED <<configVars, clock, run, usersVars, sessionsVars,
                   user_country_map, idx, num_events_in_session,
                   session_duration, jitters, events, prev>>

\* The outer loop has visited every session.
EventsExhausted ==
    /\ pc = "events_outer"
    /\ idx = Len(sessions)
    /\ pc' = "events_return"
    /\ UNCHANGED <<configVars, clock, run, tape, cursor, usersVars,
                   sessionsVars, eventsVars, outVars, prev>>

EventsReturn ==
    /\ pc = "events_return"
    /\ events' = head(events_data, NUM_EVENTS)
    /\ pc' = "save_events"
    /\ UNCHANGED <<configVars, clock, run, tape, cursor, usersVars,
                   sessionsVars, user_country_map, events_data, event_id, idx,
                   num_events_in_session, session_duration, k, jitters,
                   events_idx, outVars, prev>>

(***************************************************************************)
(* The environment: a step of the try block fails (an I/O error, no        *)
(* memory), and the process is started a second time.                      *)
(***************************************************************************)
TrySteps ==
    {"gen_users", "save_users", "gen_sessions", "sessions_loop",
     "save_sessions", "gen_events", "events_outer", "events_inner",
     "events_return", "save_events", "stats"}

Fail ==
    /\ pc \in TrySteps
    /\ Raise
    /\ UNCHANGED <<configVars, clock, run, tape, cursor, usersVars,
                   sessionsVars, eventsVars, prev>>

NoTable == <<>>

Rerun ==
    /\ pc = "done"
    /\ run = 1
    /\ run' = 2
    /\ cursor' = 1
    /\ prev' = [users |-> users, sessions |-> sessions, events |-> events]
    /\ clock' \in Now
    /\ pc' = "gen_users"
    /\ signup_dates' = <<>>
    /\ users' = NoTable
    /\ base_date' = NoTime
    /\ sessions_data' = <<>>
    /\ sessions' = NoTable
    /\ tokens' = <<>>
    /\ user_country_map' = country_map(NoTable)
    /\ events_data' = <<>>
    /\ event_id' = 1
    /\ idx' = 0
    /\ num_events_in_session' = 0
    /\ session_duration' = FloatZero
    /\ k' = 0
    /\ jitters' = <<>>
    /\ events_idx' = <<>>
    /\ events' = NoTable
    /\ summary_printed' = FALSE
    /\ error_printed' = FALSE
    /\ raised' = FALSE
    /\ UNCHANGED <<configVars, tape, files>>

(***************************************************************************)
(* Specifications.                                                         *)
(***************************************************************************)
Blank ==
    /\ run = 1
    /\ tape = <<>>
    /\ cursor = 1
    /\ signup_dates = <<>>
    /\ base_date = NoTime
    /\ sessions_data = <<>>
    /\ tokens = <<>>
    /\ user_country_map = country_map(NoTable)
    /\ events_data = <<>>
    /\ event_id = 1
    /\ idx = 0
    /\ num_events_in_session = 0
    /\ session_duration = FloatZero
    /\ k = 0
    /\ jitters = <<>>
    /\ events_idx = <<>>
    /\ events = NoTable
    /\ files = [users |-> NoTable, sessions |-> NoTable, raw_events |-> NoTable]
    /\ summary_printed = FALSE
    /\ error_printed = FALSE
    /\ raised = FALSE
    /\ prev = [users |-> NoTable, sessions |-> NoTable, events |-> NoTable]

\* The whole program, from the start of __main__.
Init ==
    /\ Blank
    /\ NUM_USERS \in 0..MainSize
    /\ NUM_SESSIONS \in 0..MainSize
    /\ NUM_EVENTS \in 0..MainSize
    /\ clock \in Nows
    /\ pc = "gen_users"
    /\ users = NoTable
    /\ sessions = NoTable

Next ==
    \/ UsersSignupIter
    \/ UsersBuildFrame
    \/ SaveUsers
    \/ SessionsBegin
    \/ SessionsIter
    \/ SessionsReturn
    \/ SaveSessions
    \/ EventsBegin
    \/ EventsNextSession
    \/ EventsAppend
    \/ EventsExhausted
    \/ EventsReturn
    \/ SaveEvents
    \/ PrintStats
    \/ Fail

Spec == Init /\ [][Next]_vars

\* Two processes with the same seed, one after the other.
SpecTwoRuns == Init /\ [][Next \/ Rerun]_vars

\* The user tables generate_users returns for n users.
UsersInputs(n) ==
    {users_frame(n, [i \in 1..n |-> signup_date(t, r)], cols) :
        t \in Nows, r \in {Lo(randint(0, SIGNUP_DAYS))},
        cols \in {c \in UserColumnDraws(n) :
                    \A i \in 1..n : c.COUNTRY[i] = Pick(np_random_choice(COUNTRY_DISTRIBUTION), i % 2 = 0)}}

\* generate_sessions on a table of users.
InitSessions ==
    /\ Blank
    /\ NUM_USERS \in 0..MaxUsers
    /\ NUM_SESSIONS \in 0..MaxSessions
    /\ NUM_EVENTS = MaxCap
    /\ clock \in Nows
    /\ pc = "gen_sessions"
    /\ users \in UsersInputs(NUM_USERS)
    /\ sessions = NoTable

NextSessions == SessionsBegin \/ SessionsIter \/ SessionsReturn

SpecSessions == InitSessions /\ [][NextSessions]_vars

\* The session tables generate_sessions returns: m rows, the draws of the
\* rows taken in turn from the sample combinations.
SessionsInputs(df, m) ==
    {[i \in 1..m |->
        session_row(TimeSub(t, timedelta(NUM_DAYS, 0, 0, 0)),
            CHOOSE d \in SessionDraws(df) :
                /\ (d.days = 0) <=> ((i + shift) % 2 = 0)
                /\ (d.duration = MIN_DURATION) <=> (((i + shift) \div 2) % 2 = 0)
                /\ (d.device = Lo(np_random_choice(DEVICE_DISTRIBUTION)))
                      <=> (((i + shift) \div 4) % 2 = 0))]
        : t \in {CHOOSE n \in Nows : TRUE}, shift \in 0..7}

\* generate_events on a table of users and a table of sessions.
InitEvents ==
    /\ Blank
    /\ NUM_USERS \in 1..MaxUsers
    /\ NUM_SESSIONS \in 0..MaxSessions
    /\ NUM_EVENTS \in 0..MaxCap
    /\ clock \in {CHOOSE n \in Nows : TRUE}
    /\ pc = "gen_events"
    /\ users \in {CHOOSE u \in UsersInputs(NUM_USERS) : TRUE}
    /\ sessions \in SessionsInputs(users, NUM_SESSIONS)

NextEvents ==
    \/ EventsBegin
    \/ EventsNextSession
    \/ EventsAppend
    \/ EventsExhausted
    \/ EventsReturn

SpecEvents == InitEvents /\ [][NextEvents]_vars


(***************************************************************************)
(* Properties.                                                             *)
(***************************************************************************)
Returned == pc = "save_events"

\* The session each row of the output was generated for.
Parent(r) == sessions[events_idx[r]]

\* The number of rows of the output generated for the session at position i.
Count(i) == Cardinality({r \in 1..Len(events) : events_idx[r] = i})

\* page_view_count + jitter of the visited session at position i.
Planned(i) == sessions[i].PAGE_VIEWS + jitters[i]

RECURSIVE SumPlanned(_)
SumPlanned(n) == IF n = 0 THEN 0 ELSE Planned(n) + SumPlanned(n - 1)

RECURSIVE SumPageViews(_, _)
SumPageViews(from, to) ==
    IF from > to THEN 0
    ELSE sessions[from].PAGE_VIEWS + SumPageViews(from + 1, to)

\* The least the sum of page_view_count + jitter over all sessions can be:
\* the jitter of a session that was never visited is at least 0.
LeastTotal == SumPlanned(idx) + SumPageViews(idx + 1, Len(sessions))

\* C1: the table generate_events returns has at most NUM_EVENTS rows, and
\* exactly NUM_EVENTS rows when the sum over the sessions of
\* page_view_count + jitter exceeds NUM_EVENTS.
C1_CapBound ==
    Returned =>
        /\ Len(events) <= NUM_EVENTS
        /\ LeastTotal > NUM_EVENTS => Len(events) = NUM_EVENTS
        /\ idx < Len(sessions) => LeastTotal > NUM_EVENTS

C1_Witness ==
    /\ Returned
    /\ NUM_EVENTS >= 2
    /\ idx >= 2
    /\ SumPlanned(idx) > NUM_EVENTS
    /\ Len(events) = NUM_EVENTS

\* C2 as claimed: every event of the output has a timestamp t with
\* start_time <= t < end_time of its session.
C2_HalfOpen ==
    Returned =>
        \A r \in 1..Len(events) :
            /\ TimeLeq(Parent(r).SESSION_START, events[r].EVENT_TIMESTAMP)
            /\ TimeLess(events[r].EVENT_TIMESTAMP, Parent(r).SESSION_END)

\* C2 as amended: every event of the output has a timestamp t with
\* start_time <= t <= end_time of its session; t = end_time happens when the
\* offset drawn is less than half a microsecond below the duration.
C2_Closed ==
    Returned =>
        \A r \in 1..Len(events) :
            /\ TimeLeq(Parent(r).SESSION_START, events[r].EVENT_TIMESTAMP)
            /\ TimeLeq(events[r].EVENT_TIMESTAMP, Parent(r).SESSION_END)

C2_Witness ==
    /\ Returned
    /\ \E r \in 1..Len(events) :
          events[r].EVENT_TIMESTAMP = Parent(r).SESSION_END
    /\ \E r \in 1..Len(events) :
          events[r].EVENT_TIMESTAMP = Parent(r).SESSION_START

\* C3: every event of the output carries the id and the user_id of the
\* session it was generated for, a session of the session table, and the
\* country of the user of the user table with that user_id.
C3_References ==
    Returned =>
        \A r \in 1..Len(events) :
            /\ events_idx[r] \in 1..Len(sessions)
            /\ events[r].SESSION_ID = Parent(r).SESSION_ID
            /\ events[r].USER_ID = Parent(r).USER_ID
            /\ \E i \in 1..Len(users) :
                  /\ users[i].USER_ID = events[r].USER_ID
                  /\ users[i].COUNTRY = events[r].COUNTRY

C3_Witness ==
    /\ Returned
    /\ \E r1 \in 1..Len(events), r2 \in 1..Len(events) :
          /\ events[r1].USER_ID # events[r2].USER_ID
          /\ events[r1].COUNTRY # events[r2].COUNTRY
          /\ events[r1].SESSION_ID = events[r2].SESSION_ID

\* An increment has taken the counter above the cap.
CapHit == event_id > NUM_EVENTS /\ event_id > 1

\* C9: the loops are left as soon as an increment takes event_id above
\* NUM_EVENTS; in the output the sessions before the one then in progress
\* have page_view_count + jitter events each, that one has at most as many,
\* the later ones have none, and rows are in the order of the sessions;
\* when event_id never exceeds NUM_EVENTS every session has
\* page_view_count + jitter events.
C9_StopsAtCap ==
    /\ CapHit => pc \notin {"events_outer", "events_inner"}
    /\ Returned =>
        /\ \A r1 \in 1..Len(events), r2 \in 1..Len(events) :
              r1 <= r2 => events_idx[r1] <= events_idx[r2]
        /\ IF CapHit
           THEN /\ idx >= 1
                /\ \A i \in 1..(idx - 1) : Count(i) = Planned(i)
                /\ Count(idx) <= Planned(idx)
                /\ \A i \in (idx + 1)..Len(sessions) : Count(i) = 0
           ELSE /\ idx = Len(sessions)
                /\ \A i \in 1..Len(sessions) : Count(i) = Planned(i)

C9_Witness ==
    /\ Returned
    /\ CapHit
    /\ idx = 2
    /\ Len(sessions) = 3
    /\ Count(1) = Planned(1)
    /\ Count(2) >= 1
    /\ Count(2) < Planned(2)
    /\ Count(3) = 0

\* C10 as claimed: for every NUM_EVENTS >= 0 the list accumulated when the
\* loops are left has at most NUM_EVENTS entries, so the slice changes
\* nothing.
C10_SliceRedundant ==
    /\ pc = "events_return" => Len(events_data) <= NUM_EVENTS
    /\ Returned => events = events_data

\* C10 as amended: for every NUM_EVENTS >= 1 the list accumulated when the
\* loops are left has at most NUM_EVENTS entries, so the slice changes
\* nothing; with NUM_EVENTS = 0 the list holds one event of the first
\* session and only the slice removes it.
C10_SliceRedundantFromOne ==
    /\ (pc = "events_return" /\ NUM_EVENTS >= 1) =>
            Len(events_data) <= NUM_EVENTS
    /\ (Returned /\ NUM_EVENTS >= 1) => events = events_data
    /\ (Returned /\ NUM_EVENTS = 0 /\ Len(sessions) >= 1) =>
            Len(events_data) = 1 /\ events = <<>>

C10_Witness ==
    /\ Returned
    /\ NUM_EVENTS >= 1
    /\ idx < Len(sessions)
    /\ Len(events_data) = NUM_EVENTS
    /\ events = events_data

UserIdSet == {users[i].USER_ID : i \in 1..Len(users)}

\* C4: generate_sessions returns exactly NUM_SESSIONS sessions, and the
\* user_id of each is an id of the user table.
C4_SessionsReferToUsers ==
    pc = "save_sessions" =>
        /\ Len(sessions) = NUM_SESSIONS
        /\ \A i \in 1..Len(sessions) : sessions[i].USER_ID \in UserIdSet

C4_Witness ==
    /\ pc = "save_sessions"
    /\ Len(sessions) >= 2
    /\ \A u \in UserIdSet : \E i \in 1..Len(sessions) : sessions[i].USER_ID = u
    /\ Cardinality(UserIdSet) >= 2

\* C5: every session generate_sessions builds has end_time after start_time,
\* the difference being a whole number of minutes from 1 to 120.
C5_Duration ==
    \A i \in 1..Len(sessions_data) :
        LET s == sessions_data[i]
            length == TimeSub(s.SESSION_END, s.SESSION_START)
        IN  /\ TimeLess(s.SESSION_START, s.SESSION_END)
            /\ length.days = 0
            /\ length.microseconds = 0
            /\ length.seconds % 60 = 0
            /\ length.seconds \div 60 \in 1..120

C5_Witness ==
    /\ pc = "save_sessions"
    /\ \E i \in 1..Len(sessions), j \in 1..Len(sessions) :
          /\ TimeSub(sessions[i].SESSION_END, sessions[i].SESSION_START).seconds = 60
          /\ TimeSub(sessions[j].SESSION_END, sessions[j].SESSION_START).seconds = 7200

Characters == {ALPHABET[a] : a \in 1..Len(ALPHABET)}

\* C7 as claimed: no two sessions of a table generate_sessions builds have
\* the same id, whatever tokens are drawn.
C7_UniqueIds ==
    \A i \in 1..Len(sessions_data), j \in 1..Len(sessions_data) :
        i # j => sessions_data[i].SESSION_ID # sessions_data[j].SESSION_ID

\* C7 as amended: a session id is the prefix followed by the 16 characters
\* drawn for the session, so two sessions have the same id exactly when the
\* same token was drawn for both; nothing rules that out.
C7_IdsFollowTokens ==
    /\ Len(tokens) = Len(sessions_data)
    /\ \A i \in 1..Len(sessions_data) :
          /\ Len(tokens[i]) = 16
          /\ \A c \in 1..16 : tokens[i][c] \in Characters
          /\ Len(sessions_data[i].SESSION_ID) = 24
          /\ SubSeq(sessions_data[i].SESSION_ID, 1, 8)
                = <<"s", "e", "s", "s", "i", "o", "n", "_">>
          /\ SubSeq(sessions_data[i].SESSION_ID, 9, 24) = tokens[i]
    /\ \A i \in 1..Len(sessions_data), j \in 1..Len(sessions_data) :
          sessions_data[i].SESSION_ID = sessions_data[j].SESSION_ID
              <=> tokens[i] = tokens[j]

C7_Witness ==
    /\ pc = "save_sessions"
    /\ \E i \in 1..Len(sessions), j \in 1..Len(sessions) :
          /\ i # j
          /\ sessions[i].SESSION_ID = sessions[j].SESSION_ID
          /\ sessions[i].USER_ID # sessions[j].USER_ID
    /\ \E i \in 1..Len(sessions), j \in 1..Len(sessions) :
          sessions[i].SESSION_ID # sessions[j].SESSION_ID

\* The step of the sequence a position of the process belongs to.
StepOf(p) ==
    CASE p = "gen_users" -> 1
      [] p = "save_users" -> 2
      [] p \in {"gen_sessions", "sessions_loop"} -> 3
      [] p = "save_sessions" -> 4
      [] p \in {"gen_events", "events_outer", "events_inner", "events_return"} -> 5
      [] p = "save_events" -> 6
      [] p = "stats" -> 7
      [] p = "done" -> 8
      [] p = "error" -> 9

\* C8: the steps run in the order generate users, write users.csv, generate
\* sessions, write sessions.csv, generate events, write raw_events.csv; a
\* step that fails ends the run in the error outcome, with the error printed
\* and the exception raised again; after that no step runs, none is retried
\* and the summary is not printed.
C8_FailureEndsRun ==
    [][/\ pc' # "error" => StepOf(pc') \in {StepOf(pc), StepOf(pc) + 1}
       /\ pc' # pc => pc # "error"
       /\ raised' => pc' = "error" /\ error_printed' /\ ~summary_printed'
       /\ pc' = "error" => raised' /\ error_printed'
       /\ pc = "error" => UNCHANGED vars
       /\ summary_printed' => pc' = "done"
       /\ files'.users # files.users => pc = "save_users"
       /\ files'.sessions # files.sessions => pc = "save_sessions"
       /\ files'.raw_events # files.raw_events => pc = "save_events"]_vars

C8_Witness ==
    /\ pc = "error"
    /\ raised
    /\ error_printed
    /\ ~summary_printed
    /\ Len(files.users) >= 1
    /\ Len(sessions) >= 1
    /\ files.sessions = NoTable
    /\ events = NoTable

\* C6: two processes with the same seed and configuration produce the same
\* users, sessions and events tables.
C6_Determinism ==
    (run = 2 /\ pc = "done") =>
        prev = [users |-> users, sessions |-> sessions, events |-> events]

====
